---- MODULE Spec2Model ----
(***************************************************************************)
(* Model of the leads-import HTTP resilience layer (requestJSON) and of    *)
(* the batched repository operations built on it (AirtableRepo).           *)
(*                                                                         *)
(* Every logical task p \in Procs runs one top-level operation.  Each      *)
(* action is the synchronous code that runs between two awaits.            *)
(***************************************************************************)
EXTENDS Integers, Sequences, FiniteSets, TLC

\* ---------------------------------------------------------------- bounds
NumProcs == 2
MaxRetries == 3
MaxBaseDelay == 2
MaxRecords == 21
MaxConcurrentRetries == 1
MaxLimit == 3
MaxTasks == 5
MaxStoreLen == 2
MaxKeys == 41

Procs == 1..NumProcs

\* ------------------------------------------------------ program constants
DefaultRetries == 5
DefaultBaseDelayMs == 400
batchSize == 10
politeDelayMs == 120
pageSize == 100
keyGroupSize == 20

\* ------------------------------------------------------------ environment
\* Status codes the server may answer with.
Statuses == {200, 204, 304, 404, 429, 499, 500, 503}

\* Errors the transport may fail with.
TransportErrors == {"Network error", "ECONNREFUSED"}

\* Outcome of res.text(): the body text, or a failed read.
TextOutcomes ==
  { [ok |-> TRUE, text |-> ""], [ok |-> TRUE, text |-> "Rate Limited"],
    [ok |-> FALSE, text |-> "No body"] }

NoRecords == << >>
UndefinedBody == [tag |-> "undefined", hasRecords |-> FALSE, records |-> NoRecords]
PlainBodies ==
  { [tag |-> "success", hasRecords |-> FALSE, records |-> NoRecords],
    [tag |-> "recovered", hasRecords |-> FALSE, records |-> NoRecords] }
ParseError == "Invalid JSON"

\* Identifier the store gives to the record made from input record r.
StoredRecord(r) == 100 + r

\* What the store answers to a request: for a batch mutation the records it
\* wrote (or a body with no records field), otherwise a plain JSON body.
JsonOutcomes(opts) ==
  IF opts.method \in {"POST", "PATCH"}
    THEN { [ok |-> TRUE,
            body |-> [tag |-> "batch", hasRecords |-> TRUE,
                      records |-> [k \in 1..Len(opts.body) |-> StoredRecord(opts.body[k])]]],
           [ok |-> TRUE,
            body |-> [tag |-> "batch", hasRecords |-> FALSE, records |-> NoRecords]],
           [ok |-> FALSE, body |-> UndefinedBody] }
    ELSE { [ok |-> TRUE, body |-> b] : b \in PlainBodies }
           \cup { [ok |-> FALSE, body |-> UndefinedBody] }

\* A JavaScript value that can sit in a key field: its type and String(v).
Undefined == [type |-> "undefined", s |-> "undefined"]
Null == [type |-> "null", s |-> "null"]
Str(x) == [type |-> "string", s |-> x]
Num(n) == [type |-> "number", s |-> ToString(n)]

\* Boolean(v): undefined, null, "" and 0 are falsy.
Truthy(v) ==
  \/ v.type = "string" /\ v.s # ""
  \/ v.type = "number" /\ v.s # "0"

\* String(v)
String(v) == v.s

\* quote(v): String(v) with its double quotes escaped; the key values of the
\* model contain none.
quote(v) == String(v)

\* A record of the table: its identifier, the value of its key field and
\* the number of times it has been patched.
Record(id, key) == [id |-> id, key |-> key, rev |-> 0]

\* The records a filter {field} = "x" (or an OR of such terms) selects: those
\* whose key field is filled and reads as one of the quoted values.
Matching(st, filter) ==
  SelectSeq(st, LAMBDA r :
    /\ r.key.type \in {"string", "number"}
    /\ \E k \in 1..Len(filter) : r.key.s = filter[k])

\* The first page of a query result.
Page(rs) == SubSeq(rs, 1, IF Len(rs) < pageSize THEN Len(rs) ELSE pageSize)

\* The identifiers a PATCH is addressed to: the record of the URL, or the
\* records listed in the body.
PatchTargets(opts) ==
  IF opts.path # 0 THEN {opts.path}
  ELSE {StoredRecord(opts.body[k]) : k \in 1..Len(opts.body)}

\* The table after the store has carried out the request: a POST appends one
\* record per body element, a PATCH rewrites its targets, a GET changes
\* nothing.
Applied(st, opts) ==
  IF opts.method = "POST"
    THEN st \o [k \in 1..Len(opts.body) |->
                  Record(100 + Len(st) + k, opts.body[k])]
  ELSE IF opts.method = "PATCH"
    THEN [k \in 1..Len(st) |->
            IF st[k].id \in PatchTargets(opts)
              THEN [st[k] EXCEPT !.rev = @ + 1] ELSE st[k]]
  ELSE st

\* What the store answers to a request of a lookup operation when it carries
\* the request out: the first page of the selected records, the patched
\* record, or the created records.
Answer(st, opts) ==
  IF opts.method = "GET"
    THEN [tag |-> "list", hasRecords |-> TRUE,
          records |-> Page(Matching(st, opts.filter))]
  ELSE IF opts.method = "PATCH"
    THEN [tag |-> "record", hasRecords |-> FALSE,
          records |-> SelectSeq(Applied(st, opts),
                                LAMBDA r : r.id \in PatchTargets(opts))]
  ELSE [tag |-> "created", hasRecords |-> TRUE,
        records |-> SubSeq(Applied(st, opts), Len(st) + 1,
                           Len(st) + Len(opts.body))]

\* The statuses the retry policy is about: 429 and the server errors.
RetryableStatuses == {s \in Statuses : s = 429 \/ s >= 500}

\* res.ok as the transport sets it.
Ok(status) == status >= 200 /\ status <= 299

NoText == [ok |-> FALSE, text |-> ""]
NoJson == [ok |-> FALSE, body |-> UndefinedBody]
NoResponse == [status |-> 0, ok |-> FALSE, text |-> NoText, json |-> NoJson]

\* The responses a fetch may resolve with.  requestJSON reads the JSON body
\* only of an ok response and the text only of a response that is not ok, so
\* the part it never reads is left at a fixed value.
Responses(opts) ==
  { [status |-> s, ok |-> Ok(s), text |-> NoText, json |-> j] :
      s \in {c \in Statuses : Ok(c)}, j \in JsonOutcomes(opts) }
  \cup
  { [status |-> s, ok |-> Ok(s), text |-> t, json |-> NoJson] :
      s \in {c \in Statuses : ~Ok(c)}, t \in TextOutcomes }

\* The responses of the store to a request of a lookup operation.
StoreResponses(st, opts) ==
  { [status |-> s, ok |-> Ok(s), text |-> NoText, json |-> j] :
      s \in {c \in Statuses : Ok(c)},
      j \in { [ok |-> TRUE, body |-> Answer(st, opts)],
              [ok |-> FALSE, body |-> UndefinedBody] } }
  \cup
  { [status |-> s, ok |-> Ok(s), text |-> t, json |-> NoJson] :
      s \in {c \in Statuses : ~Ok(c)}, t \in TextOutcomes }

\* ------------------------------------------------------------------ state
VARIABLES
  op,           \* the operation task p performs
  retryConfig,  \* third argument of a direct requestJSON call
  records,      \* input list of createMany / updateMany
  args,         \* arguments of the lookup operations (table, field, value, keys)
  strictDuplicates, \* cfg.behavior.strictDuplicates
  store,        \* the records of the remote table
  store0,       \* history: the table before the operation began
  serverStatuses, \* the statuses the server answers with in this run
  options,      \* requestJSON: options forwarded to fetch
  retries,      \* requestJSON: retries after defaults
  baseDelayMs,  \* requestJSON: baseDelayMs after defaults
  i,            \* requestJSON: loop index
  res,          \* requestJSON: response of the current attempt
  rq,           \* requestJSON: the await the call is suspended at
  outcome,      \* requestJSON: how the returned promise settled
  netlog,       \* history: options of every fetch issued by task p
  waits,        \* history: every backoff delay passed to sleep by task p
  retryableSeen,\* history: number of responses with status 429 or >= 500
  netErr,       \* history: the error a fetch of task p failed with, or ""
  answered,     \* history: number of fetches of task p that have settled
  lastStatus,   \* history: status of the latest response task p received
  calledDuringSleep, \* history: the call began while another task slept
  rpc,          \* repository operation: position
  gi,           \* repository operation: index of the current group
  out,          \* repository operation: accumulated result
  responses,    \* history: records carried by every parsed success response
  events,       \* history: order of batch requests, results and delays
  ret,          \* lookup operation: how its promise settled
  existing,     \* upsertByKey: the record findOneByField returned
  map,          \* findRecordsByKeys: key value -> record id
  limit,        \* Pool: limit
  active,       \* Pool: active
  q,            \* Pool: q (queued tasks)
  tstate        \* Pool: state of every submitted task, by submission order

inputVars == <<op, retryConfig, records, args, strictDuplicates, store0,
               serverStatuses>>
rqVars == <<options, retries, baseDelayMs, i, res, rq, outcome>>
histVars == <<netlog, waits, retryableSeen, netErr, responses, answered,
              lastStatus, calledDuringSleep>>
repoVars == <<rpc, gi, out, events>>
lookupVars == <<ret, existing, map>>
poolVars == <<limit, active, q, tstate>>
vars == <<op, retryConfig, records, args, strictDuplicates, store, store0,
          serverStatuses,
          options,
          retries, baseDelayMs, i, res, rq, outcome, netlog, waits,
          retryableSeen, netErr, responses, answered, lastStatus,
          calledDuringSleep, rpc, gi, out, events, ret, existing, map, limit,
          active, q, tstate>>

\* ------------------------------------------------------------ requestJSON
Keys == {"retries", "baseDelayMs"}
EmptyConfig == [k \in {} |-> 0]

\* The retryConfig arguments a caller may pass: any subset of the two keys.
RetryConfigs ==
  UNION { { f \in [D -> 0..(MaxRetries + MaxBaseDelay)] :
              /\ ("retries" \in D => f["retries"] \in 0..MaxRetries)
              /\ ("baseDelayMs" \in D => f["baseDelayMs"] \in 1..MaxBaseDelay) } :
          D \in SUBSET Keys }

\* Variant: the default of retries is lost once any key is supplied.
RetriesOfCoupled(rc) ==
  IF "retries" \in DOMAIN rc THEN rc["retries"]
  ELSE IF DOMAIN rc = {} THEN DefaultRetries ELSE 0

\* { retries = 5, baseDelayMs = 400 } = {}
RetriesOf(rc) == IF "retries" \in DOMAIN rc THEN rc["retries"] ELSE DefaultRetries
BaseDelayOf(rc) ==
  IF "baseDelayMs" \in DOMAIN rc THEN rc["baseDelayMs"] ELSE DefaultBaseDelayMs

\* Variant: every client error is retried too.
RetryableAnyError(status) == status >= 400

\* res.status === 429 || res.status >= 500
Retryable(status) == status = 429 \/ status >= 500

\* Variant: the last attempt is recognised one index early.
LastAttemptOffByOne(idx, R) == idx = R - 1

\* i === retries
LastAttempt(idx, R) == idx = R

\* Variant: linear instead of exponential backoff.
BackoffLinear(base, idx) == base * (idx + 1)

\* baseDelayMs * 2 ** i
Backoff(base, idx) == base * 2^idx

\* Variant: the failure of the body read is not caught.
TextOrError(t) == t.text

\* .catch(() => "")
TextOrEmpty(t) == IF t.ok THEN t.text ELSE ""

\* `HTTP ${res.status} after ${retries} retries: ${text}`
ExhaustedMessage(status, R, text) ==
  "HTTP " \o ToString(status) \o " after " \o ToString(R) \o " retries: " \o text

\* `HTTP ${res.status}: ${text}`
FailMessage(status, text) == "HTTP " \o ToString(status) \o ": " \o text

Pending == [kind |-> "pending", error |-> "", json |-> UndefinedBody]
Resolved(body) == [kind |-> "resolved", error |-> "", json |-> body]
Rejected(e) == [kind |-> "rejected", error |-> e, json |-> UndefinedBody]

\* Variant: the loop stops one index early.
LoopCondStrict(idx, R) == idx < R

\* i <= retries
LoopCond(idx, R) == idx <= R

\* Variant: the loop index is one counter shared by all calls.
LoopTestSharedIndex(p, idx, R, opts) ==
  /\ i' = [o \in Procs |-> idx]
  /\ IF LoopCond(idx, R)
       THEN /\ rq' = [rq EXCEPT ![p] = "await_fetch"]
            /\ netlog' = [netlog EXCEPT ![p] = Append(@, opts)]
            /\ outcome' = [outcome EXCEPT ![p] = Pending]
       ELSE /\ rq' = [rq EXCEPT ![p] = "settled"]
            /\ outcome' = [outcome EXCEPT ![p] = Resolved(UndefinedBody)]
            /\ UNCHANGED netlog

\* The head of the for loop with index idx: issue the fetch of this attempt,
\* or fall out of the loop and return undefined.
LoopTest(p, idx, R, opts) ==
  /\ i' = [i EXCEPT ![p] = idx]
  /\ IF LoopCond(idx, R)
       THEN /\ rq' = [rq EXCEPT ![p] = "await_fetch"]
            /\ netlog' = [netlog EXCEPT ![p] = Append(@, opts)]
            /\ outcome' = [outcome EXCEPT ![p] = Pending]
       ELSE /\ rq' = [rq EXCEPT ![p] = "settled"]
            /\ outcome' = [outcome EXCEPT ![p] = Resolved(UndefinedBody)]
            /\ UNCHANGED netlog

\* Entry of requestJSON(url, opts, rc) up to its first await.
RequestJSONEnter(p, opts, rc) ==
  /\ options' = [options EXCEPT ![p] = opts]
  /\ retries' = [retries EXCEPT ![p] = RetriesOf(rc)]
  /\ baseDelayMs' = [baseDelayMs EXCEPT ![p] = BaseDelayOf(rc)]
  /\ res' = [res EXCEPT ![p] = NoResponse]
  /\ LoopTest(p, 0, RetriesOf(rc), opts)

DirectOptions == [method |-> "GET", path |-> 0, filter |-> << >>, body |-> NoRecords]

\* A task calls requestJSON(url, {}, retryConfig) directly.
CallRequestJSON(p) ==
  /\ op[p] = "requestJSON"
  /\ rq[p] = "idle"
  /\ RequestJSONEnter(p, DirectOptions, retryConfig[p])
  /\ calledDuringSleep' = [calledDuringSleep EXCEPT ![p] =
                             \E o \in Procs \ {p} : rq[o] = "sleep"]
  /\ UNCHANGED <<inputVars, lookupVars, poolVars, store, answered, lastStatus, repoVars, waits, retryableSeen, netErr, responses>>

\* Variant: the transport error is wrapped in a new error.
FetchFailsWrapped(p) ==
  /\ rq[p] = "await_fetch"
  /\ \E e \in TransportErrors :
       /\ outcome' = [outcome EXCEPT ![p] = Rejected("Request failed: " \o e)]
       /\ netErr' = [netErr EXCEPT ![p] = e]
       /\ rq' = [rq EXCEPT ![p] = "settled"]
  /\ answered' = [answered EXCEPT ![p] = @ + 1]
  /\ UNCHANGED <<inputVars, lookupVars, poolVars, store, lastStatus, calledDuringSleep, repoVars, options, retries, baseDelayMs, i, res,
                 netlog, waits, retryableSeen, responses>>

\* await fetch(url, options) rejects: the error leaves requestJSON as it is.
FetchFails(p) ==
  /\ rq[p] = "await_fetch"
  /\ \E e \in TransportErrors :
       /\ outcome' = [outcome EXCEPT ![p] = Rejected(e)]
       /\ netErr' = [netErr EXCEPT ![p] = e]
       /\ rq' = [rq EXCEPT ![p] = "settled"]
  /\ answered' = [answered EXCEPT ![p] = @ + 1]
  /\ UNCHANGED <<inputVars, lookupVars, poolVars, store, lastStatus, calledDuringSleep, repoVars, options, retries, baseDelayMs, i, res,
                 netlog, waits, retryableSeen, responses>>

LookupOperations == {"findOneByField", "upsertByKey", "findRecordsByKeys"}

\* The responses task p can get to the request it has in flight.
ServerResponses(p) ==
  { r \in IF op[p] \in LookupOperations
            THEN StoreResponses(store, options[p])
            ELSE Responses(options[p]) :
      r.status \in serverStatuses }

\* await fetch(url, options) resolves with a response, which is classified.
FetchResponds(p) ==
  /\ rq[p] = "await_fetch"
  /\ \E r \in ServerResponses(p) :
       /\ res' = [res EXCEPT ![p] = r]
       /\ lastStatus' = [lastStatus EXCEPT ![p] = r.status]
       /\ store' = IF r.ok THEN Applied(store, options[p]) ELSE store
       /\ retryableSeen' = [retryableSeen EXCEPT ![p] =
                              IF r.status \in RetryableStatuses THEN @ + 1 ELSE @]
       /\ IF Retryable(r.status)
            THEN IF LastAttempt(i[p], retries[p])
                   THEN /\ rq' = [rq EXCEPT ![p] = "await_text_exhausted"]
                        /\ UNCHANGED waits
                   ELSE /\ rq' = [rq EXCEPT ![p] = "sleep"]
                        /\ waits' = [waits EXCEPT ![p] =
                                       Append(@, Backoff(baseDelayMs[p], i[p]))]
            ELSE /\ rq' = [rq EXCEPT ![p] =
                             IF ~r.ok THEN "await_text_failed" ELSE "await_json"]
                 /\ UNCHANGED waits
  /\ answered' = [answered EXCEPT ![p] = @ + 1]
  /\ UNCHANGED <<inputVars, lookupVars, poolVars, calledDuringSleep, repoVars,
                 options, retries, baseDelayMs, i, outcome,
                 netlog, netErr, responses>>

\* await res.text().catch(() => "") settles and the status error is thrown.
TextSettles(p) ==
  /\ rq[p] \in {"await_text_exhausted", "await_text_failed"}
  /\ LET text == TextOrEmpty(res[p].text)
         msg == IF rq[p] = "await_text_exhausted"
                  THEN ExhaustedMessage(res[p].status, retries[p], text)
                  ELSE FailMessage(res[p].status, text)
     IN  outcome' = [outcome EXCEPT ![p] = Rejected(msg)]
  /\ rq' = [rq EXCEPT ![p] = "settled"]
  /\ UNCHANGED <<inputVars, lookupVars, poolVars, store, repoVars, histVars, options, retries, baseDelayMs, i, res>>

\* Variant: the retry does not advance the loop index.
SleepElapsesNoIncrement(p) ==
  /\ rq[p] = "sleep"
  /\ LoopTest(p, i[p], retries[p], options[p])
  /\ UNCHANGED <<inputVars, lookupVars, poolVars, store, answered, lastStatus,
                 calledDuringSleep, repoVars, options, retries, baseDelayMs, res,
                 waits, retryableSeen, netErr, responses>>

\* await sleep(...) elapses; continue with the next loop index.
SleepElapses(p) ==
  /\ rq[p] = "sleep"
  /\ LoopTest(p, i[p] + 1, retries[p], options[p])
  /\ UNCHANGED <<inputVars, lookupVars, poolVars, store, answered, lastStatus,
                 calledDuringSleep, repoVars, options, retries, baseDelayMs, res,
                 waits, retryableSeen, netErr, responses>>

\* Variant: a body that fails to parse is retried as the next attempt.
JsonSettlesRetryOnParseError(p) ==
  /\ rq[p] = "await_json"
  /\ responses' = [responses EXCEPT ![p] =
                     IF res[p].json.ok
                       THEN Append(@, IF res[p].json.body.hasRecords
                                        THEN res[p].json.body.records ELSE NoRecords)
                       ELSE @]
  /\ IF res[p].json.ok
       THEN /\ outcome' = [outcome EXCEPT ![p] = Resolved(res[p].json.body)]
            /\ rq' = [rq EXCEPT ![p] = "settled"]
            /\ UNCHANGED <<i, netlog>>
       ELSE LoopTest(p, i[p] + 1, retries[p], options[p])
  /\ UNCHANGED <<inputVars, lookupVars, poolVars, store, answered, lastStatus,
                 calledDuringSleep, repoVars, options, retries, baseDelayMs, res,
                 waits, retryableSeen, netErr>>

\* Variant: the parsed body is not returned and the loop goes on.
JsonSettlesNoReturn(p) ==
  /\ rq[p] = "await_json"
  /\ responses' = [responses EXCEPT ![p] =
                     IF res[p].json.ok
                       THEN Append(@, IF res[p].json.body.hasRecords
                                        THEN res[p].json.body.records ELSE NoRecords)
                       ELSE @]
  /\ LoopTest(p, i[p] + 1, retries[p], options[p])
  /\ UNCHANGED <<inputVars, lookupVars, poolVars, store, answered, lastStatus,
                 calledDuringSleep, repoVars, options, retries, baseDelayMs, res,
                 waits, retryableSeen, netErr>>

\* return res.json(): the call settles as the body parse settles.
JsonSettles(p) ==
  /\ rq[p] = "await_json"
  /\ outcome' = [outcome EXCEPT ![p] =
                   IF res[p].json.ok THEN Resolved(res[p].json.body)
                                     ELSE Rejected(ParseError)]
  /\ responses' = [responses EXCEPT ![p] =
                     IF res[p].json.ok
                       THEN Append(@, IF res[p].json.body.hasRecords
                                        THEN res[p].json.body.records ELSE NoRecords)
                       ELSE @]
  /\ rq' = [rq EXCEPT ![p] = "settled"]
  /\ UNCHANGED <<inputVars, lookupVars, poolVars, store, answered, lastStatus,
                 calledDuringSleep, repoVars, options, retries, baseDelayMs, i, res,
                 netlog, waits, retryableSeen, netErr>>

\* ----------------------------------------------------------- AirtableRepo
\* Variant: Math.floor in place of Math.ceil.
CeilFloor(a, b) == a \div b

\* Math.ceil(a / b)
Ceil(a, b) == IF a % b = 0 THEN a \div b ELSE (a \div b) + 1

Min(a, b) == IF a < b THEN a ELSE b

\* arr.slice(from, to) with 0-based from (inclusive) and to (exclusive)
Slice(arr, from, to) == SubSeq(arr, from + 1, Min(to, Len(arr)))

\* chunk(arr, size)
chunk(arr, size) ==
  [g \in 1..Ceil(Len(arr), size) |-> Slice(arr, (g - 1) * size, g * size)]

\* PATCH for updateMany, POST for createMany
MethodOf(operation) == IF operation = "updateMany" THEN "PATCH" ELSE "POST"

\* json.records || []
RecordsOrEmpty(json) == IF json.hasRecords THEN json.records ELSE NoRecords

Event(e, ms) == [e |-> e, ms |-> ms]

\* How the promise of a repository operation settled.
Returned(id) == [kind |-> "resolved", error |-> "", id |-> id]
Threw(e) == [kind |-> "rejected", error |-> e, id |-> 0]
NoResult == [kind |-> "pending", error |-> "", id |-> 0]

\* The for-of loop over chunk(records, batchSize) at group g: request the
\* group, or leave the loop and return out.
NextGroup(p, g, ev) ==
  LET groups == chunk(records[p], batchSize) IN
  /\ gi' = [gi EXCEPT ![p] = g]
  /\ IF g <= Len(groups)
       THEN /\ RequestJSONEnter(p, [method |-> MethodOf(op[p]), path |-> 0,
                                    filter |-> << >>, body |-> groups[g]],
                                EmptyConfig)
            /\ rpc' = [rpc EXCEPT ![p] = "await_request"]
            /\ events' = [events EXCEPT ![p] = Append(ev, Event("call", 0))]
            /\ UNCHANGED ret
       ELSE /\ rpc' = [rpc EXCEPT ![p] = "returned"]
            /\ events' = [events EXCEPT ![p] = ev]
            /\ ret' = [ret EXCEPT ![p] = Returned(0)]
            /\ UNCHANGED <<rqVars, netlog>>

\* createMany(table, records) / updateMany(table, records) up to the first
\* await.
CallBatch(p) ==
  /\ op[p] \in {"createMany", "updateMany"}
  /\ rpc[p] = "idle"
  /\ out' = [out EXCEPT ![p] = NoRecords]
  /\ NextGroup(p, 1, events[p])
  /\ UNCHANGED <<inputVars, existing, map, poolVars, store, answered, lastStatus,
                 calledDuringSleep, waits, retryableSeen, netErr, responses>>

\* Variant: no polite delay after the final batch.
BatchAnsweredNoTrailingDelay(p) ==
  /\ rpc[p] = "await_request"
  /\ rq[p] = "settled"
  /\ IF outcome[p].kind = "resolved" /\ outcome[p].json.tag # "undefined"
       THEN /\ out' = [out EXCEPT ![p] = @ \o RecordsOrEmpty(outcome[p].json)]
            /\ events' = [events EXCEPT ![p] = Append(@, Event("ok", 0))]
            /\ UNCHANGED ret
            /\ rpc' = [rpc EXCEPT ![p] =
                         IF gi[p] = Len(chunk(records[p], batchSize))
                           THEN "returned" ELSE "delay"]
       ELSE /\ rpc' = [rpc EXCEPT ![p] = "failed"]
            /\ ret' = [ret EXCEPT ![p] = Threw(outcome[p].error)]
            /\ UNCHANGED <<out, events>>
  /\ UNCHANGED <<inputVars, existing, map, poolVars, store, rqVars, histVars, gi>>

\* Variant: a failed batch is skipped and the loop goes on.
BatchAnsweredSkipsFailure(p) ==
  /\ rpc[p] = "await_request"
  /\ rq[p] = "settled"
  /\ IF outcome[p].kind = "resolved" /\ outcome[p].json.tag # "undefined"
       THEN /\ out' = [out EXCEPT ![p] = @ \o RecordsOrEmpty(outcome[p].json)]
            /\ events' = [events EXCEPT ![p] = Append(@, Event("ok", 0))]
            /\ UNCHANGED ret
            /\ rpc' = [rpc EXCEPT ![p] = "delay"]
       ELSE /\ rpc' = [rpc EXCEPT ![p] = "delay"]
            /\ UNCHANGED <<ret, out, events>>
  /\ UNCHANGED <<inputVars, existing, map, poolVars, store, rqVars, histVars, gi>>

\* await requestJSON(...) settles: a rejection leaves the operation; a result
\* is pushed on out and the polite delay is started.
BatchAnswered(p) ==
  /\ rpc[p] = "await_request"
  /\ rq[p] = "settled"
  /\ IF outcome[p].kind = "resolved" /\ outcome[p].json.tag # "undefined"
       THEN /\ out' = [out EXCEPT ![p] = @ \o RecordsOrEmpty(outcome[p].json)]
            /\ events' = [events EXCEPT ![p] = Append(@, Event("ok", 0))]
            /\ UNCHANGED ret
            /\ rpc' = [rpc EXCEPT ![p] = "delay"]
       ELSE /\ rpc' = [rpc EXCEPT ![p] = "failed"]
            /\ ret' = [ret EXCEPT ![p] = Threw(outcome[p].error)]
            /\ UNCHANGED <<out, events>>
  /\ UNCHANGED <<inputVars, existing, map, poolVars, store, rqVars, histVars, gi>>

\* The polite delay elapses; the loop goes on to the next group.
PoliteDelayElapses(p) ==
  /\ rpc[p] = "delay"
  /\ NextGroup(p, gi[p] + 1, Append(events[p], Event("delay", politeDelayMs)))
  /\ UNCHANGED <<inputVars, existing, map, poolVars, store, answered, lastStatus,
                 calledDuringSleep, out, waits, retryableSeen, netErr, responses>>

\* ---------------------------------------------------------- specification
Operations == {"requestJSON", "createMany", "updateMany"}
BatchOperations == {"createMany", "updateMany"}

\* The input lists of a batch operation: n distinct records, in order.
RecordLists == { [k \in 1..n |-> k] : n \in 0..MaxRecords }

\* The table an operation starts from: updateMany patches records that
\* exist, the other operations start from an empty table.
InitialStore(operation, recs) ==
  IF operation = "updateMany"
    THEN [k \in 1..Len(recs) |-> Record(StoredRecord(recs[k]), recs[k])]
    ELSE << >>

NoArgs == [table |-> "", field |-> "", value |-> Undefined, keys |-> << >>]
NoRecord == [id |-> 0, key |-> Undefined, rev |-> 0]

\* No lookup operation is under way.
LookupIdle ==
  /\ ret = [p \in Procs |-> NoResult]
  /\ existing = [p \in Procs |-> NoRecord]
  /\ map = [p \in Procs |-> << >>]

\* No Pool is in use.
PoolIdle ==
  /\ limit = 0
  /\ active = 0
  /\ q = << >>
  /\ tstate = << >>

\* No call has been made by any task.
Quiescent ==
  /\ store0 = store
  /\ options = [p \in Procs |-> DirectOptions]
  /\ retries = [p \in Procs |-> 0]
  /\ baseDelayMs = [p \in Procs |-> 0]
  /\ i = [p \in Procs |-> 0]
  /\ res = [p \in Procs |-> NoResponse]
  /\ rq = [p \in Procs |-> "idle"]
  /\ outcome = [p \in Procs |-> Pending]
  /\ netlog = [p \in Procs |-> << >>]
  /\ waits = [p \in Procs |-> << >>]
  /\ retryableSeen = [p \in Procs |-> 0]
  /\ netErr = [p \in Procs |-> ""]
  /\ responses = [p \in Procs |-> << >>]
  /\ rpc = [p \in Procs |-> "idle"]
  /\ gi = [p \in Procs |-> 0]
  /\ out = [p \in Procs |-> NoRecords]
  /\ events = [p \in Procs |-> << >>]
  /\ answered = [p \in Procs |-> 0]
  /\ lastStatus = [p \in Procs |-> 0]
  /\ calledDuringSleep = [p \in Procs |-> FALSE]

\* Task 1 is about to perform one of the operations ops on one input; no call
\* has been made yet.
InitOps(ops) ==
  /\ op \in [Procs -> ops \cup {"none"}]
  /\ op[1] \in ops
  /\ \A p \in Procs \ {1} : op[p] = "none"
  /\ retryConfig \in [Procs -> RetryConfigs]
  /\ \A p \in Procs : op[p] # "requestJSON" => retryConfig[p] = EmptyConfig
  /\ records \in [Procs -> RecordLists]
  /\ \A p \in Procs : op[p] \notin BatchOperations => records[p] = NoRecords
  /\ store = InitialStore(op[1], records[1])
  /\ args = [p \in Procs |-> NoArgs]
  /\ strictDuplicates = TRUE
  /\ serverStatuses = Statuses
  /\ Quiescent
  /\ LookupIdle
  /\ PoolIdle

Init == InitOps(Operations)
InitRequest == InitOps({"requestJSON"})
InitBatch == InitOps(BatchOperations)

\* One step of a requestJSON call that is under way.
RequestStep(p) ==
  \/ FetchFails(p)
  \/ FetchResponds(p)
  \/ TextSettles(p)
  \/ SleepElapses(p)
  \/ JsonSettles(p)

\* One step of a batch operation (its own code or the request it awaits).
BatchStep(p) ==
  \/ CallBatch(p)
  \/ BatchAnswered(p)
  \/ PoliteDelayElapses(p)

NextRequest == \E p \in Procs : CallRequestJSON(p) \/ RequestStep(p)
NextBatch == \E p \in Procs : BatchStep(p) \/ RequestStep(p)
Next == \E p \in Procs : CallRequestJSON(p) \/ RequestStep(p) \/ BatchStep(p)

\* All operations.
Spec == Init /\ [][Next]_vars

\* Direct requestJSON calls only.
SpecRequest == InitRequest /\ [][NextRequest]_vars

\* Direct requestJSON calls, where every network call, body read and delay
\* that is awaited settles.
SpecRequestFair ==
  InitRequest /\ [][NextRequest]_vars
    /\ \A p \in Procs : WF_vars(CallRequestJSON(p) \/ RequestStep(p))

\* ---- findOneByField, upsertByKey ----

\* The options of a query GET over the quoted values of filter.
LookupOptions(filter) ==
  [method |-> "GET", path |-> 0, filter |-> filter, body |-> NoRecords]

\* `Duplicate ${table} where ${field}="${value}" (${all.length} found)`
DuplicateMessage(table, field, value, n) ==
  "Duplicate " \o table \o " where " \o field \o "=\"" \o String(value)
    \o "\" (" \o ToString(n) \o " found)"

\* `Upsert missing ${keyField}`
MissingKeyMessage(field) == "Upsert missing " \o field

\* Variant: any number of matches is accepted.
IsDuplicateNever(all) == FALSE

\* all.length > 1 && cfg.behavior.strictDuplicates
IsDuplicate(all) == Len(all) > 1 /\ strictDuplicates

\* all[0] || null
FirstOrNull(all) == IF Len(all) > 0 THEN all[1] ELSE NoRecord

\* findOneByField(table, field, value) up to its await.
CallFindOne(p) ==
  /\ op[p] = "findOneByField"
  /\ rpc[p] = "idle"
  /\ RequestJSONEnter(p, LookupOptions(<<quote(args[p].value)>>), EmptyConfig)
  /\ rpc' = [rpc EXCEPT ![p] = "await_lookup"]
  /\ events' = [events EXCEPT ![p] = Append(@, Event("GET", 0))]
  /\ UNCHANGED <<inputVars, lookupVars, poolVars, store, answered, lastStatus,
                 calledDuringSleep, waits, retryableSeen, netErr, responses,
                 gi, out>>

\* Variant: the key is not tested before the lookup.
CallUpsertUnchecked(p) ==
  /\ op[p] = "upsertByKey"
  /\ rpc[p] = "idle"
  /\ RequestJSONEnter(p, LookupOptions(<<quote(args[p].value)>>), EmptyConfig)
  /\ rpc' = [rpc EXCEPT ![p] = "await_lookup"]
  /\ events' = [events EXCEPT ![p] = Append(@, Event("GET", 0))]
  /\ UNCHANGED <<inputVars, lookupVars, poolVars, store, answered, lastStatus,
                 calledDuringSleep, waits, retryableSeen, netErr, responses,
                 gi, out>>

\* upsertByKey(table, keyField, fields) up to its first await: a falsy key
\* throws, otherwise findOneByField is called.
CallUpsert(p) ==
  /\ op[p] = "upsertByKey"
  /\ rpc[p] = "idle"
  /\ IF ~Truthy(args[p].value)
       THEN /\ ret' = [ret EXCEPT ![p] = Threw(MissingKeyMessage(args[p].field))]
            /\ rpc' = [rpc EXCEPT ![p] = "failed"]
            /\ UNCHANGED <<rqVars, netlog, events>>
       ELSE /\ RequestJSONEnter(p, LookupOptions(<<quote(args[p].value)>>),
                                EmptyConfig)
            /\ rpc' = [rpc EXCEPT ![p] = "await_lookup"]
            /\ events' = [events EXCEPT ![p] = Append(@, Event("GET", 0))]
            /\ UNCHANGED ret
  /\ UNCHANGED <<inputVars, existing, map, poolVars, store, answered,
                 lastStatus, calledDuringSleep, waits, retryableSeen, netErr,
                 responses, gi, out>>

\* Variant: the write is a POST whether or not a record was found.
WriteOptionsAlwaysPost(p, found) ==
  [method |-> "POST", path |-> 0, filter |-> << >>, body |-> <<args[p].value>>]

\* Variant: the write is chosen from the table as it is when the write is
\* issued, not from what the lookup returned.
WriteOptionsFromTable(p, found) ==
  LET now == FirstOrNull(Matching(store, <<quote(args[p].value)>>)) IN
  IF now.id # 0
    THEN [method |-> "PATCH", path |-> now.id, filter |-> << >>,
          body |-> <<args[p].value>>]
    ELSE [method |-> "POST", path |-> 0, filter |-> << >>,
          body |-> <<args[p].value>>]

\* The write of upsertByKey: PATCH of the record found, or POST of a new
\* record when none was found.
WriteOptions(p, found) ==
  IF found.id # 0
    THEN [method |-> "PATCH", path |-> found.id, filter |-> << >>,
          body |-> <<args[p].value>>]
    ELSE [method |-> "POST", path |-> 0, filter |-> << >>,
          body |-> <<args[p].value>>]

\* await findAllByField(...) settles inside findOneByField: the duplicate
\* test, then the first record or null; upsertByKey goes on to its write.
LookupAnswered(p) ==
  /\ op[p] \in {"findOneByField", "upsertByKey"}
  /\ rpc[p] = "await_lookup"
  /\ rq[p] = "settled"
  /\ IF outcome[p].kind # "resolved" \/ outcome[p].json.tag = "undefined"
       THEN /\ ret' = [ret EXCEPT ![p] = Threw(outcome[p].error)]
            /\ rpc' = [rpc EXCEPT ![p] = "failed"]
            /\ UNCHANGED <<existing, rqVars, netlog, events>>
       ELSE LET all == RecordsOrEmpty(outcome[p].json) IN
            IF IsDuplicate(all)
              THEN /\ ret' = [ret EXCEPT ![p] =
                                Threw(DuplicateMessage(args[p].table, args[p].field,
                                                       args[p].value, Len(all)))]
                   /\ rpc' = [rpc EXCEPT ![p] = "failed"]
                   /\ UNCHANGED <<existing, rqVars, netlog, events>>
              ELSE /\ existing' = [existing EXCEPT ![p] = FirstOrNull(all)]
                   /\ IF op[p] = "findOneByField"
                        THEN /\ ret' = [ret EXCEPT ![p] = Returned(FirstOrNull(all).id)]
                             /\ rpc' = [rpc EXCEPT ![p] = "returned"]
                             /\ UNCHANGED <<rqVars, netlog, events>>
                        ELSE /\ RequestJSONEnter(p, WriteOptions(p, FirstOrNull(all)),
                                                 EmptyConfig)
                             /\ rpc' = [rpc EXCEPT ![p] = "await_write"]
                             /\ events' = [events EXCEPT ![p] = Append(@,
                                  Event(WriteOptions(p, FirstOrNull(all)).method, 0))]
                             /\ UNCHANGED ret
  /\ UNCHANGED <<inputVars, map, poolVars, store, answered, lastStatus,
                 calledDuringSleep, waits, retryableSeen, netErr, responses,
                 gi, out>>

\* json.id of a PATCH answer, json.records[0].id of a POST answer.
WrittenId(json) == IF Len(json.records) > 0 THEN json.records[1].id ELSE 0

\* await requestJSON(...) of the PATCH or POST settles: its identifier is
\* returned, or its error leaves upsertByKey.
WriteAnswered(p) ==
  /\ op[p] = "upsertByKey"
  /\ rpc[p] = "await_write"
  /\ rq[p] = "settled"
  /\ IF outcome[p].kind # "resolved" \/ outcome[p].json.tag = "undefined"
       THEN /\ ret' = [ret EXCEPT ![p] = Threw(outcome[p].error)]
            /\ rpc' = [rpc EXCEPT ![p] = "failed"]
       ELSE /\ ret' = [ret EXCEPT ![p] = Returned(WrittenId(outcome[p].json))]
            /\ rpc' = [rpc EXCEPT ![p] = "returned"]
  /\ UNCHANGED <<inputVars, existing, map, poolVars, store, rqVars, histVars,
                 gi, out, events>>

\* ---- findRecordsByKeys ----

\* Variant: the keys are grouped without being filtered.
PartsUnfiltered(keys) == [k \in 1..Len(keys) |-> quote(keys[k])]

\* keys.filter(Boolean).map(k => `{keyField} = "${quote(k)}"`): the quoted
\* values of the truthy keys.
Parts(keys) ==
  LET kept == SelectSeq(keys, Truthy) IN [k \in 1..Len(kept) |-> quote(kept[k])]

\* The places of recs whose record enters the map under key x.
Entering(recs, x) ==
  {k \in 1..Len(recs) : Truthy(recs[k].key) /\ String(recs[k].key) = x}

\* The greatest / least element of a non-empty set of places.
Last(ps) == CHOOSE k \in ps : \A j \in ps : j <= k
First(ps) == CHOOSE k \in ps : \A j \in ps : k <= j

\* Variant: the first identifier seen for a key is kept.
CollectFirstWins(m, recs) ==
  LET seen == {String(recs[k].key) : k \in {j \in 1..Len(recs) : Truthy(recs[j].key)}}
  IN [x \in DOMAIN m \cup seen |->
        IF x \in DOMAIN m THEN m[x] ELSE recs[First(Entering(recs, x))].id]

\* for (const rec of json.records || []) { val = rec.fields?.[keyField];
\*   if (val) map.set(String(val), rec.id) }: every record with a truthy key
\* is entered in response order, a later one replacing an earlier one.
Collect(m, recs) ==
  LET seen == {String(recs[k].key) : k \in {j \in 1..Len(recs) : Truthy(recs[j].key)}}
  IN [x \in DOMAIN m \cup seen |->
        IF x \in seen THEN recs[Last(Entering(recs, x))].id ELSE m[x]]

\* The for-of loop over chunk(parts, 20) at group g: query the group, or
\* leave the loop and return the map.
NextKeyGroup(p, g) ==
  LET groups == chunk(Parts(args[p].keys), keyGroupSize) IN
  /\ gi' = [gi EXCEPT ![p] = g]
  /\ IF g <= Len(groups)
       THEN /\ RequestJSONEnter(p, LookupOptions(groups[g]), EmptyConfig)
            /\ rpc' = [rpc EXCEPT ![p] = "await_keys"]
            /\ events' = [events EXCEPT ![p] = Append(@, Event("GET", 0))]
            /\ UNCHANGED ret
       ELSE /\ rpc' = [rpc EXCEPT ![p] = "returned"]
            /\ ret' = [ret EXCEPT ![p] = Returned(0)]
            /\ UNCHANGED <<rqVars, netlog, events>>

\* findRecordsByKeys(table, keyField, keys) up to its first await.
CallFindKeys(p) ==
  /\ op[p] = "findRecordsByKeys"
  /\ rpc[p] = "idle"
  /\ map' = [map EXCEPT ![p] = << >>]
  /\ NextKeyGroup(p, 1)
  /\ UNCHANGED <<inputVars, existing, poolVars, store, answered, lastStatus,
                 calledDuringSleep, waits, retryableSeen, netErr, responses,
                 out>>

\* await requestJSON(...) of a group settles: its records are entered in the
\* map and the next group is queried at once; an error leaves the operation.
KeysAnswered(p) ==
  /\ op[p] = "findRecordsByKeys"
  /\ rpc[p] = "await_keys"
  /\ rq[p] = "settled"
  /\ IF outcome[p].kind # "resolved" \/ outcome[p].json.tag = "undefined"
       THEN /\ ret' = [ret EXCEPT ![p] = Threw(outcome[p].error)]
            /\ rpc' = [rpc EXCEPT ![p] = "failed"]
            /\ UNCHANGED <<map, gi, rqVars, netlog, events>>
       ELSE /\ map' = [map EXCEPT ![p] =
                         Collect(@, RecordsOrEmpty(outcome[p].json))]
            /\ NextKeyGroup(p, gi[p] + 1)
  /\ UNCHANGED <<inputVars, existing, poolVars, store, answered, lastStatus,
                 calledDuringSleep, waits, retryableSeen, netErr, responses,
                 out>>

\* ---- Pool ----

\* A task handed to run(): whether fn throws before its first await, how
\* far the task has come (queued, running, resolved, rejected), its place in
\* the order of starts (0 before it starts), the state of the promise run()
\* returned, and the number of times that promise was resolved or rejected.
Task(throws) ==
  [phase |-> "queued", throws |-> throws, order |-> 0,
   promise |-> "pending", settles |-> 0]

\* The task is shifted off the queue and called.
Start(ts, t) ==
  [ts EXCEPT ![t].phase = "running",
             ![t].order = Cardinality({u \in 1..Len(ts) : ts[u].order > 0}) + 1]

\* resolve(await fn()) or reject(e) of task t.
Settle(ts, t, how) ==
  [ts EXCEPT ![t].phase = how, ![t].promise = how, ![t].settles = @ + 1]

\* The state of the pool as a record of its fields and the tasks' states.
PoolState(a, qu, ts) == [active |-> a, q |-> qu, tstate |-> ts]

\* Variant: the loop starts a task while active <= limit.
RECURSIVE PoolNextInclusive(_, _, _)
PoolNextInclusive(a, qu, ts) ==
  IF a <= limit /\ Len(qu) > 0
    THEN LET t == Head(qu) IN
         IF ts[t].throws
           THEN PoolNextInclusive(a, Tail(qu), Settle(Start(ts, t), t, "rejected"))
           ELSE PoolNextInclusive(a + 1, Tail(qu), Start(ts, t))
    ELSE PoolState(a, qu, ts)

\* _next(): while a slot is free and the queue is not empty, shift the first
\* task and call it. The task increments active and calls fn; a fn that
\* throws at once rejects, decrements active and runs _next() again before
\* the loop goes on, otherwise the task is suspended at its await.
RECURSIVE PoolNext(_, _, _)
PoolNext(a, qu, ts) ==
  IF a < limit /\ Len(qu) > 0
    THEN LET t == Head(qu) IN
         IF ts[t].throws
           THEN PoolNext((a + 1) - 1, Tail(qu), Settle(Start(ts, t), t, "rejected"))
           ELSE PoolNext(a + 1, Tail(qu), Start(ts, t))
    ELSE PoolState(a, qu, ts)

\* The pool takes the state s.
PoolBecomes(s) ==
  /\ active' = s.active
  /\ q' = s.q
  /\ tstate' = s.tstate

\* run(fn): push the task and call _next().
PoolRun ==
  /\ Len(tstate) < MaxTasks
  /\ \E throws \in BOOLEAN :
       PoolBecomes(PoolNext(active, Append(q, Len(tstate) + 1),
                            Append(tstate, Task(throws))))
  /\ UNCHANGED <<inputVars, store, rqVars, histVars, repoVars, lookupVars,
                 limit>>

\* Variant: the slot is released after a success only.
TaskFinishesKeepsSlotOnFailure(t) ==
  /\ t \in 1..Len(tstate)
  /\ tstate[t].phase = "running"
  /\ \E how \in {"resolved", "rejected"} :
       IF how = "rejected"
         THEN PoolBecomes(PoolState(active, q, Settle(tstate, t, how)))
         ELSE PoolBecomes(PoolNext(active - 1, q, Settle(tstate, t, how)))
  /\ UNCHANGED <<inputVars, store, rqVars, histVars, repoVars, lookupVars,
                 limit>>

\* The awaited fn() of task t settles: resolve or reject, then the finally
\* block decrements active and calls _next().
TaskFinishes(t) ==
  /\ t \in 1..Len(tstate)
  /\ tstate[t].phase = "running"
  /\ \E how \in {"resolved", "rejected"} :
       PoolBecomes(PoolNext(active - 1, q, Settle(tstate, t, how)))
  /\ UNCHANGED <<inputVars, store, rqVars, histVars, repoVars, lookupVars,
                 limit>>

\* A new Pool(limit) with no task submitted.
InitPool ==
  /\ op = [p \in Procs |-> "none"]
  /\ retryConfig = [p \in Procs |-> EmptyConfig]
  /\ records = [p \in Procs |-> NoRecords]
  /\ store = << >>
  /\ args = [p \in Procs |-> NoArgs]
  /\ strictDuplicates = TRUE
  /\ serverStatuses = Statuses
  /\ Quiescent
  /\ LookupIdle
  /\ limit \in 0..MaxLimit
  /\ active = 0
  /\ q = << >>
  /\ tstate = << >>

NextPool == PoolRun \/ \E t \in 1..MaxTasks : TaskFinishes(t)

\* A Pool alone.
SpecPool == InitPool /\ [][NextPool]_vars

\* A Pool whose started tasks all finish.
SpecPoolFair ==
  /\ InitPool /\ [][NextPool]_vars
  /\ \A t \in 1..MaxTasks : WF_vars(TaskFinishes(t))

\* The key values upsertByKey and findOneByField are called with, and the
\* key values the records of the table carry.
KeyValues == {Undefined, Null, Str(""), Num(0), Str("ChIJ1")}
StoredKeys == {Str("ChIJ1"), Str("ChIJ2")}

\* The tables of the configuration with their key fields.
Tables == { [table |-> "Leads", field |-> "placeId"],
            [table |-> "Reviews", field |-> "reviewId"] }

\* The table holding the records with the keys ks, in that order.
StoreOf(ks) == [k \in 1..Len(ks) |-> Record(100 + k, ks[k])]
UpsertStores ==
  { StoreOf(ks) : ks \in UNION { [1..n -> StoredKeys] : n \in 0..MaxStoreLen } }

\* Task 1 is about to call findOneByField or upsertByKey.
InitUpsert ==
  /\ op \in [Procs -> {"findOneByField", "upsertByKey", "none"}]
  /\ op[1] # "none"
  /\ \A p \in Procs \ {1} : op[p] = "none"
  /\ retryConfig = [p \in Procs |-> EmptyConfig]
  /\ records = [p \in Procs |-> NoRecords]
  /\ \E t \in Tables : \E v \in KeyValues :
       args = [p \in Procs |->
                 IF p = 1 THEN [table |-> t.table, field |-> t.field,
                                value |-> v, keys |-> << >>]
                 ELSE NoArgs]
  /\ strictDuplicates \in BOOLEAN
  /\ serverStatuses = Statuses
  /\ store \in UpsertStores
  /\ Quiescent
  /\ LookupIdle
  /\ PoolIdle

\* Tasks 1 and 2 are about to call upsertByKey with the same key. The server
\* answers 200 or 404 in these runs: no answer is retryable, so that the two
\* calls' lookups and writes interleave without the retry loop multiplying
\* the states (the retry loop is covered by the other specifications).
InitUpsertConcurrent ==
  /\ op = [p \in Procs |-> IF p \in {1, 2} THEN "upsertByKey" ELSE "none"]
  /\ retryConfig = [p \in Procs |-> EmptyConfig]
  /\ records = [p \in Procs |-> NoRecords]
  /\ args = [p \in Procs |->
               IF p \in {1, 2}
                 THEN [table |-> "Leads", field |-> "placeId",
                       value |-> Str("ChIJ1"), keys |-> << >>]
                 ELSE NoArgs]
  /\ strictDuplicates \in BOOLEAN
  /\ serverStatuses = {200, 404}
  /\ store \in {StoreOf(<< >>), StoreOf(<<Str("ChIJ2")>>), StoreOf(<<Str("ChIJ1")>>)}
  /\ Quiescent
  /\ LookupIdle
  /\ PoolIdle

\* One step of findOneByField or upsertByKey.
UpsertStep(p) ==
  \/ CallFindOne(p)
  \/ CallUpsert(p)
  \/ LookupAnswered(p)
  \/ WriteAnswered(p)

NextUpsert == \E p \in Procs : UpsertStep(p) \/ RequestStep(p)

\* findOneByField and upsertByKey, one call alone.
SpecUpsert == InitUpsert /\ [][NextUpsert]_vars

\* The steps of the two calls; no backoff wait occurs in these runs.
NextUpsertConcurrent ==
  \E p \in Procs :
    \/ CallUpsert(p) \/ LookupAnswered(p) \/ WriteAnswered(p)
    \/ FetchFails(p) \/ FetchResponds(p) \/ TextSettles(p) \/ JsonSettles(p)

\* Two upsertByKey calls whose steps interleave.
SpecUpsertConcurrent == InitUpsertConcurrent /\ [][NextUpsertConcurrent]_vars

\* The k-th key of a list: a string, or a number at every seventh place.
KeyOf(k) == IF k % 7 = 0 THEN Num(k) ELSE Str("k" \o ToString(k))

\* The falsy value at place k: missing, null, "" and 0 in turn.
FalsyAt(k) ==
  IF k % 20 = 5 THEN Undefined ELSE IF k % 20 = 10 THEN Null
  ELSE IF k % 20 = 15 THEN Str("") ELSE Num(0)

\* Key lists of n keys: all different; with a falsy value at every fifth
\* place; with the keys repeating after the 21st.
DistinctKeys(n) == [k \in 1..n |-> KeyOf(k)]
KeysWithFalsy(n) == [k \in 1..n |-> IF k % 5 = 0 THEN FalsyAt(k) ELSE KeyOf(k)]
KeysWithRepeats(n) == [k \in 1..n |-> KeyOf(((k - 1) % 21) + 1)]
KeyListLengths == {n \in 0..MaxKeys : n % 20 \in {0, 1, 2, 19}}
KeyLists ==
  UNION { {DistinctKeys(n), KeysWithFalsy(n), KeysWithRepeats(n)} :
            n \in KeyListLengths }

\* A table in which two keys out of three have a record, the second record
\* has no key, and the last record carries the first key again.
SmallStore ==
  LET held == SelectSeq([k \in 1..MaxKeys |-> k], LAMBDA k : k % 3 # 0)
      ks == <<KeyOf(held[1]), Undefined>>
              \o [k \in 1..(Len(held) - 1) |-> KeyOf(held[k + 1])]
              \o <<KeyOf(1)>>
  IN StoreOf(ks)

\* A table in which one key fills the first page of a query.
BigStore ==
  StoreOf([k \in 1..(pageSize + 1) |->
             IF k <= pageSize THEN KeyOf(1) ELSE KeyOf(2)])

\* Task 1 is about to call findRecordsByKeys.
InitKeys ==
  /\ op = [p \in Procs |-> IF p = 1 THEN "findRecordsByKeys" ELSE "none"]
  /\ retryConfig = [p \in Procs |-> EmptyConfig]
  /\ records = [p \in Procs |-> NoRecords]
  /\ \E t \in Tables : \E ks \in KeyLists :
       /\ t.table = "Leads"
       /\ args = [p \in Procs |->
                    IF p = 1 THEN [table |-> t.table, field |-> t.field,
                                   value |-> Undefined, keys |-> ks]
                    ELSE NoArgs]
  /\ strictDuplicates = TRUE
  /\ serverStatuses = Statuses
  /\ store \in {SmallStore, BigStore}
  /\ store = BigStore => args[1].keys = DistinctKeys(2)
  /\ Quiescent
  /\ LookupIdle
  /\ PoolIdle

\* One step of findRecordsByKeys.
KeysStep(p) ==
  \/ CallFindKeys(p)
  \/ KeysAnswered(p)

NextKeys == \E p \in Procs : KeysStep(p) \/ RequestStep(p)

\* findRecordsByKeys, one call alone.
SpecKeys == InitKeys /\ [][NextKeys]_vars

\* createMany and updateMany only.
SpecBatch == InitBatch /\ [][NextBatch]_vars

\* Tasks 1 and 2 each call requestJSON, with a retry budget of their own.
InitConcurrent ==
  /\ op = [p \in Procs |-> IF p \in {1, 2} THEN "requestJSON" ELSE "none"]
  /\ retryConfig \in [Procs -> RetryConfigs]
  /\ \A p \in Procs :
       IF p \in {1, 2}
         THEN /\ DOMAIN retryConfig[p] = Keys
              /\ retryConfig[p]["retries"] \in 0..MaxConcurrentRetries
              /\ retryConfig[p]["baseDelayMs"] = 1
         ELSE retryConfig[p] = EmptyConfig
  /\ records = [p \in Procs |-> NoRecords]
  /\ store = << >>
  /\ args = [p \in Procs |-> NoArgs]
  /\ strictDuplicates = TRUE
  /\ serverStatuses = Statuses
  /\ Quiescent
  /\ LookupIdle
  /\ PoolIdle

\* Concurrent requestJSON calls: the steps of the two calls interleave.
SpecConcurrent == InitConcurrent /\ [][NextRequest]_vars

\* ----------------------------------------------------------------- claims
Direct(p) == op[p] = "requestJSON"
Batch(p) == op[p] \in BatchOperations
Settled(p) == rq[p] = "settled"
Calls(p) == Len(netlog[p])
Success(status) == status \in 200..299
RetryableClass(status) == status = 429 \/ status >= 500

\* The body text of the current response, "" when it cannot be read.
BodyText(p) == IF res[p].text.ok THEN res[p].text.text ELSE ""

\* Every attempt of the call was answered, and with a retryable status.
AllRetryable(p) == Calls(p) >= 1 /\ retryableSeen[p] = Calls(p)

\* C1: with retries = R, a call whose every attempt is answered with a
\* retryable status makes exactly R + 1 network calls and rejects with
\* 'HTTP <status> after <R> retries: <body text>'; no network call follows
\* the rejection.
C1_ExhaustionAfterRPlusOneCalls ==
  /\ [](\A p \in Procs :
          Direct(p) /\ Settled(p) /\ AllRetryable(p) =>
            /\ Calls(p) = retries[p] + 1
            /\ outcome[p].kind = "rejected"
            /\ outcome[p].error =
                 "HTTP " \o ToString(res[p].status) \o " after "
                   \o ToString(retries[p]) \o " retries: " \o BodyText(p))
  /\ [][\A p \in Procs :
          Direct(p) /\ outcome[p].kind = "rejected" => netlog'[p] = netlog[p]]_vars

C1_Witness ==
  \E p \in Procs :
    /\ Direct(p) /\ Settled(p) /\ AllRetryable(p)
    /\ retries[p] = 2 /\ Calls(p) = 3
    /\ outcome[p] = Rejected("HTTP 429 after 2 retries: Rate Limited")

\* C2: when the first response is not ok and not retryable, exactly one
\* network call is made, no backoff wait happens and the call rejects with
\* 'HTTP <status>: <body text>', whatever the retry count.
C2_NonRetryableFailsAtOnce ==
  \A p \in Procs :
    /\ Direct(p) /\ res[p].status # 0 /\ retryableSeen[p] = 0
    /\ ~Success(res[p].status) /\ res[p].status # 429 /\ res[p].status < 500
    => /\ Calls(p) = 1
       /\ waits[p] = << >>
       /\ rq[p] \in {"await_text_failed", "settled"}
       /\ Settled(p) =>
            /\ outcome[p].kind = "rejected"
            /\ outcome[p].error =
                 "HTTP " \o ToString(res[p].status) \o ": " \o BodyText(p)

C2_Witness ==
  \E p \in Procs :
    /\ Direct(p) /\ Settled(p) /\ retries[p] = 3 /\ Calls(p) = 1
    /\ res[p].status = 404
    /\ outcome[p] = Rejected("HTTP 404: Rate Limited")

\* C3: k retryable responses (k <= retries) followed by a success response
\* make exactly k + 1 network calls, the call resolves with the parsed body
\* of the success response, and no network call follows the success.
C3_SuccessAfterRetries ==
  /\ [](\A p \in Procs :
          Direct(p) /\ Success(res[p].status) =>
            /\ retryableSeen[p] <= retries[p]
            /\ Calls(p) = retryableSeen[p] + 1
            /\ Settled(p) /\ res[p].json.ok =>
                 /\ outcome[p].kind = "resolved"
                 /\ outcome[p].json = res[p].json.body)
  /\ [][\A p \in Procs :
          Direct(p) /\ Success(res[p].status) => netlog'[p] = netlog[p]]_vars

C3_Witness ==
  \E p \in Procs :
    /\ Direct(p) /\ Settled(p) /\ res[p].status = 200
    /\ retryableSeen[p] = 2 /\ Calls(p) = 3
    /\ outcome[p].kind = "resolved" /\ outcome[p].json.tag = "recovered"

\* A settled call has resolved with the parsed body of a success response or
\* rejected with an error; a call that has not settled is pending.
SettledProperly(p) ==
  IF Settled(p)
    THEN \/ /\ outcome[p].kind = "resolved"
            /\ Success(res[p].status) /\ res[p].json.ok
            /\ outcome[p].json = res[p].json.body
            /\ outcome[p].json # UndefinedBody
         \/ /\ outcome[p].kind = "rejected"
            /\ outcome[p].error # ""
    ELSE outcome[p].kind = "pending"

\* C4: every requestJSON call eventually settles, provided every network
\* call, body read and delay settles; it settles once, either resolved with
\* the parsed body of a success response or rejected with an error, and
\* never resolved with another value such as undefined.
C4_AlwaysSettlesOneOfTwoWays ==
  /\ \A p \in Procs : Direct(p) ~> Settled(p)
  /\ [](\A p \in Procs : Direct(p) => SettledProperly(p))
  /\ [][\A p \in Procs :
          Direct(p) /\ Settled(p) => outcome'[p] = outcome[p] /\ rq'[p] = rq[p]]_vars

C4_Witness ==
  \E p \in Procs :
    /\ Direct(p) /\ Settled(p) /\ retries[p] = 5 /\ Calls(p) = 6
    /\ outcome[p].kind = "resolved" /\ outcome[p].json.tag = "success"

\* C5: a transport failure of the network call at any attempt index is
\* propagated at once as the original error: the call rejects with that
\* error unchanged, and no network call and no backoff wait follows.
C5_TransportFailurePropagates ==
  /\ [](\A p \in Procs :
          Direct(p) /\ netErr[p] # "" =>
            /\ Settled(p)
            /\ outcome[p].kind = "rejected"
            /\ outcome[p].error = netErr[p]
            /\ Len(waits[p]) = Calls(p) - 1)
  /\ [][\A p \in Procs :
          Direct(p) /\ netErr[p] # "" =>
            netlog'[p] = netlog[p] /\ waits'[p] = waits[p]]_vars

C5_Witness ==
  \E p \in Procs :
    /\ Direct(p) /\ Settled(p) /\ netErr[p] = "ECONNREFUSED"
    /\ retryableSeen[p] = 2 /\ Calls(p) = 3
    /\ outcome[p] = Rejected("ECONNREFUSED")

\* C6: the wait after a retryable response at attempt index i < retries is
\* baseDelayMs * 2^i, so the waits are baseDelayMs, 2*baseDelayMs, ... in
\* order; each wait lies between attempt i and attempt i + 1, and no wait
\* follows the last permitted attempt.
C6_ExponentialBackoff ==
  \A p \in Procs :
    Direct(p) =>
      /\ \A k \in 1..Len(waits[p]) : waits[p][k] = baseDelayMs[p] * 2^(k - 1)
      /\ Len(waits[p]) <= retries[p]
      /\ rq[p] = "sleep" => Len(waits[p]) = Calls(p) /\ Calls(p) = i[p] + 1
      /\ rq[p] \notin {"sleep", "idle"} => Len(waits[p]) = Calls(p) - 1
      /\ Settled(p) /\ AllRetryable(p) => Len(waits[p]) = retries[p]

C6_Witness ==
  \E p \in Procs :
    /\ Direct(p) /\ Settled(p) /\ AllRetryable(p)
    /\ baseDelayMs[p] = 2
    /\ waits[p] = <<2, 4, 8, 16, 32>>

\* C7: when reading the body text of an error response fails, the call still
\* rejects with the status error and an empty text portion, 'HTTP <status>: '
\* or 'HTTP <status> after <R> retries: ', and the number of network calls is
\* what it is for a readable body.
C7_UnreadableBodyGivesEmptyText ==
  \A p \in Procs :
    /\ Direct(p) /\ Settled(p) /\ netErr[p] = ""
    /\ res[p].status # 0 /\ ~Success(res[p].status) /\ ~res[p].text.ok
    => /\ outcome[p].kind = "rejected"
       /\ IF RetryableClass(res[p].status)
            THEN /\ outcome[p].error =
                      "HTTP " \o ToString(res[p].status) \o " after "
                        \o ToString(retries[p]) \o " retries: "
                 /\ Calls(p) = retries[p] + 1
            ELSE /\ outcome[p].error = "HTTP " \o ToString(res[p].status) \o ": "
                 /\ Calls(p) = retryableSeen[p] + 1

C7_Witness ==
  \E p \in Procs :
    /\ Direct(p) /\ Settled(p) /\ ~res[p].text.ok
    /\ retryableSeen[p] = 1 /\ Calls(p) = 2
    /\ outcome[p] = Rejected("HTTP 404: ")

\* C8: without retryConfig the call runs with retries = 5 and baseDelayMs =
\* 400 (6 network calls on persistent retryable failure, waits 400, 800,
\* 1600, 3200, 6400); supplying only retries keeps baseDelayMs = 400 and
\* supplying only baseDelayMs keeps retries = 5.
C8_DefaultsAreIndependent ==
  \A p \in Procs :
    Direct(p) /\ rq[p] # "idle" =>
      LET rc == retryConfig[p] IN
      /\ retries[p] = IF "retries" \in DOMAIN rc THEN rc["retries"] ELSE 5
      /\ baseDelayMs[p] = IF "baseDelayMs" \in DOMAIN rc THEN rc["baseDelayMs"] ELSE 400
      /\ "baseDelayMs" \notin DOMAIN rc =>
           \A k \in 1..Len(waits[p]) : waits[p][k] = 400 * 2^(k - 1)
      /\ "retries" \notin DOMAIN rc /\ Settled(p) /\ AllRetryable(p) =>
           Calls(p) = 6 /\ Len(waits[p]) = 5
      /\ DOMAIN rc = {} /\ Settled(p) /\ AllRetryable(p) =>
           waits[p] = <<400, 800, 1600, 3200, 6400>>

C8_Witness ==
  \E p \in Procs :
    /\ Direct(p) /\ Settled(p) /\ AllRetryable(p)
    /\ DOMAIN retryConfig[p] = {"baseDelayMs"}
    /\ Calls(p) = 6
    /\ waits[p] = <<1, 2, 4, 8, 16>>

\* The store method the operation of task p has to use.
ExpectedMethod(p) == IF op[p] = "createMany" THEN "POST" ELSE "PATCH"

RECURSIVE Flatten(_)
Flatten(ss) == IF ss = << >> THEN << >> ELSE Head(ss) \o Flatten(Tail(ss))

\* The record lists of the network calls of task p, in call order.
Bodies(p) == [k \in 1..Calls(p) |-> netlog[p][k].body]

\* The number of events of kind e logged by task p.
CountEvents(p, e) == Cardinality({k \in 1..Len(events[p]) : events[p][k].e = e})

\* No network call of task p had to be repeated.
EveryCallSucceeded(p) == retryableSeen[p] = 0

\* C9: createMany and updateMany with n records issue exactly ceil(n / 10)
\* store calls when every call succeeds, POST for createMany and PATCH for
\* updateMany, one after another; each call carries at most 10 records, the
\* batches in call order concatenate to the input list, and the result is
\* the concatenation of the per-batch response records in batch order.
C9_BatchesOfTen ==
  \A p \in Procs :
    Batch(p) =>
      /\ \A k \in 1..Calls(p) :
           /\ netlog[p][k].method = ExpectedMethod(p)
           /\ Len(netlog[p][k].body) \in 1..10
      /\ EveryCallSucceeded(p) => Calls(p) <= Len(responses[p]) + 1
      /\ rpc[p] = "returned" =>
           /\ CountEvents(p, "call") = (Len(records[p]) + 9) \div 10
           /\ out[p] = Flatten(responses[p])
           /\ EveryCallSucceeded(p) =>
                /\ Calls(p) = (Len(records[p]) + 9) \div 10
                /\ Flatten(Bodies(p)) = records[p]

C9_Witness ==
  \E p \in Procs :
    /\ op[p] = "createMany" /\ rpc[p] = "returned" /\ EveryCallSucceeded(p)
    /\ Len(records[p]) = 11 /\ Calls(p) = 2
    /\ Len(netlog[p][1].body) = 10 /\ Len(netlog[p][2].body) = 1
    /\ netlog[p][1].method = "POST"
    /\ out[p] = [k \in 1..11 |-> 100 + k]

\* C10: in createMany and updateMany every successful batch call is followed
\* by one polite delay before anything else happens: the next batch call is
\* not issued, and the operation does not return, until the delay after the
\* previous batch has elapsed (number of delays = number of successful
\* batches).
C10_PoliteDelayAfterEveryBatch ==
  \A p \in Procs :
    Batch(p) =>
      /\ \A k \in 1..Len(events[p]) :
           /\ events[p][k].e = "ok" /\ k < Len(events[p]) =>
                events[p][k + 1] = [e |-> "delay", ms |-> 120]
           /\ events[p][k].e = "call" /\ k > 1 => events[p][k - 1].e = "delay"
      /\ rpc[p] = "await_request" =>
           CountEvents(p, "delay") = CountEvents(p, "ok")
      /\ rpc[p] = "returned" =>
           /\ CountEvents(p, "delay") = CountEvents(p, "ok")
           /\ CountEvents(p, "ok") = Len(responses[p])
           /\ Len(events[p]) > 0 => events[p][Len(events[p])].e = "delay"

C10_Witness ==
  \E p \in Procs :
    /\ op[p] = "updateMany" /\ rpc[p] = "returned"
    /\ Len(records[p]) = 11
    /\ [k \in 1..Len(events[p]) |-> events[p][k].e] =
         <<"call", "ok", "delay", "call", "ok", "delay">>

\* A fetch of the call has been issued and has not settled yet.
InFlight(p) == Calls(p) - answered[p]

\* What the call does after a response, from that response's status, the
\* index i of the attempt and the budget R alone.
DecidedBy(status, idx, R) ==
  IF RetryableClass(status)
    THEN IF idx < R THEN {"sleep"} ELSE {"await_text_exhausted"}
  ELSE IF Success(status) THEN {"await_json"}
  ELSE {"await_text_failed"}

\* C18: one requestJSON call with retries = R never makes more than R + 1
\* network calls and never has two of them in flight; after each response it
\* decides from that attempt's status and index alone (a retryable status at
\* index i < R leads to a wait and then attempt i + 1), and the exhaustion
\* error raised at index R reports the status of the last attempt.
C18_SequentialBoundedAttempts ==
  /\ [](\A p \in Procs :
          Direct(p) =>
            /\ Calls(p) <= retries[p] + 1
            /\ InFlight(p) \in {0, 1}
            /\ InFlight(p) = 1 <=> rq[p] = "await_fetch"
            /\ rq[p] # "idle" /\ ~Settled(p) => i[p] = Calls(p) - 1
            /\ Settled(p) /\ AllRetryable(p) =>
                 /\ i[p] = retries[p]
                 /\ outcome[p].error =
                      ExhaustedMessage(lastStatus[p], retries[p], BodyText(p)))
  /\ [][\A p \in Procs :
          Direct(p) =>
            /\ answered'[p] # answered[p] /\ netErr'[p] = "" =>
                 rq'[p] \in DecidedBy(lastStatus'[p], i[p], retries[p])
            /\ rq[p] = "sleep" /\ rq'[p] # "sleep" =>
                 /\ rq'[p] = "await_fetch"
                 /\ i'[p] = i[p] + 1
                 /\ Calls(p)' = Calls(p) + 1]_vars

C18_Witness ==
  \E p \in Procs :
    /\ Direct(p) /\ Settled(p) /\ retries[p] = 2
    /\ Calls(p) = 3 /\ answered[p] = 3 /\ Len(waits[p]) = 2
    /\ lastStatus[p] = 503
    /\ outcome[p].error = "HTTP 503 after 2 retries: Rate Limited"

\* The success response of the call carries a body that does not parse.
UnparsableSuccess(p) ==
  netErr[p] = "" /\ Success(res[p].status) /\ ~res[p].json.ok

\* C19: when a success response carries a body that fails to parse, the call
\* rejects with the parse error itself and is not retried, whatever budget
\* remains: no network call and no backoff wait follows the response.
C19_ParseFailureIsNotRetried ==
  /\ [](\A p \in Procs :
          Direct(p) /\ Settled(p) /\ UnparsableSuccess(p) =>
            /\ outcome[p] = Rejected(ParseError)
            /\ Calls(p) = retryableSeen[p] + 1
            /\ Len(waits[p]) = retryableSeen[p])
  /\ [][\A p \in Procs :
          Direct(p) /\ UnparsableSuccess(p) =>
            /\ netlog'[p] = netlog[p]
            /\ waits'[p] = waits[p]
            /\ rq'[p] \in {"await_json", "settled"}]_vars

C19_Witness ==
  \E p \in Procs :
    /\ Direct(p) /\ Settled(p) /\ UnparsableSuccess(p)
    /\ retries[p] = 3 /\ Calls(p) = 1
    /\ outcome[p] = Rejected("Invalid JSON")

\* Everything one call owns: its locals and the calls and waits it has made.
CallState(p) ==
  <<options[p], retries[p], baseDelayMs[p], i[p], res[p], rq[p], outcome[p],
    netlog[p], waits[p], retryableSeen[p], netErr[p], answered[p],
    lastStatus[p]>>

\* The number of attempts and the outcome the responses of the call dictate.
OwnPolicy(p) ==
  /\ Calls(p) <= retries[p] + 1
  /\ rq[p] # "idle" => i[p] = Calls(p) - 1
  /\ Len(waits[p]) =
       IF AllRetryable(p) /\ rq[p] \in {"await_text_exhausted", "settled"}
         THEN retryableSeen[p] - 1 ELSE retryableSeen[p]
  /\ \A k \in 1..Len(waits[p]) : waits[p][k] = baseDelayMs[p] * 2^(k - 1)
  /\ Settled(p) =>
       /\ Calls(p) = IF AllRetryable(p) THEN retries[p] + 1
                     ELSE retryableSeen[p] + 1
       /\ outcome[p] =
            IF netErr[p] # "" THEN Rejected(netErr[p])
            ELSE IF RetryableClass(lastStatus[p])
              THEN Rejected(ExhaustedMessage(lastStatus[p], retries[p],
                                             BodyText(p)))
            ELSE IF ~Success(lastStatus[p])
              THEN Rejected(FailMessage(lastStatus[p], BodyText(p)))
            ELSE IF res[p].json.ok THEN Resolved(res[p].json.body)
            ELSE Rejected(ParseError)

\* C20: when several requestJSON calls run concurrently, a backoff wait in
\* one call pauses only that call: another call can issue its network calls
\* and settle meanwhile. Each call keeps its own attempt counter, and the
\* number of attempts and the outcome of a call depend on its own responses
\* only, not on how the calls interleave.
C20_ConcurrentCallsAreIndependent ==
  /\ [](\A p \in Procs : Direct(p) => OwnPolicy(p))
  /\ [](\A p \in Procs : \A o \in Procs \ {p} :
          Direct(p) /\ Direct(o) /\ rq[p] = "sleep" =>
            /\ rq[o] = "idle" => ENABLED CallRequestJSON(o)
            /\ rq[o] = "await_fetch" => ENABLED FetchResponds(o)
            /\ rq[o] = "await_json" => ENABLED JsonSettles(o)
            /\ rq[o] = "sleep" => ENABLED SleepElapses(o))
  /\ [][\A p \in Procs : \A o \in Procs \ {p} :
          CallState(p)' = CallState(p) \/ CallState(o)' = CallState(o)]_vars

C20_Witness ==
  /\ rq[1] = "sleep" /\ Len(waits[1]) = 1 /\ i[1] = 0
  /\ calledDuringSleep[2] /\ Settled(2)
  /\ retries[2] = 1 /\ Calls(2) = 2 /\ i[2] = 1
  /\ outcome[2].kind = "resolved"

\* The tasks that have started and have not finished.
InFlightTasks == {t \in 1..Len(tstate) : tstate[t].phase = "running"}

\* C17: for a Pool with limit L, after any sequence of run() submissions and
\* task completions (successful or failing), the number of tasks in flight
\* never exceeds L, and the active counter equals the number of tasks in
\* flight and never goes below 0.
C17_PoolNeverExceedsLimit ==
  /\ Cardinality(InFlightTasks) <= limit
  /\ active = Cardinality(InFlightTasks)
  /\ active >= 0

C17_Witness ==
  /\ limit = 2 /\ active = 2
  /\ Len(q) = 1
  /\ \E t \in 1..Len(tstate) : tstate[t].phase = "rejected" /\ ~tstate[t].throws
  /\ \E t \in 1..Len(tstate) : tstate[t].phase = "resolved"

\* The request an operation awaits has failed.
RequestFailed(p) == Settled(p) /\ outcome[p].kind = "rejected"

\* The input records of the batches before batch g / after batch g.
Before(p, g) == {records[p][k] : k \in 1..Min((g - 1) * 10, Len(records[p]))}
After(p, g) == {records[p][k] : k \in (g * 10 + 1)..Len(records[p])}

\* The number of times the store has carried out the write of input record r.
Committed(p, r) ==
  IF op[p] = "createMany"
    THEN Cardinality({k \in 1..Len(store) : store[k].key = r})
    ELSE store[CHOOSE k \in 1..Len(store) : store[k].id = StoredRecord(r)].rev

\* C11: in createMany and updateMany, when the request for batch k fails
\* (after the retry policy of requestJSON), the whole operation rejects with
\* that error and returns no partial result; the batches before k stay
\* committed in the store, and no request for a batch after k is ever
\* issued.
C11_BatchFailureStopsOperation ==
  /\ [](\A p \in Procs :
          Batch(p) /\ RequestFailed(p) /\ rpc[p] # "await_request" =>
            /\ rpc[p] = "failed"
            /\ ret[p] = Threw(outcome[p].error)
            /\ \A r \in Before(p, gi[p]) : Committed(p, r) = 1
            /\ \A r \in After(p, gi[p]) : Committed(p, r) = 0
            /\ \A k \in 1..Calls(p) :
                 \E g \in 1..gi[p] :
                   netlog[p][k].body = chunk(records[p], 10)[g])
  /\ [][\A p \in Procs :
          Batch(p) /\ rpc[p] = "failed" =>
            /\ netlog'[p] = netlog[p]
            /\ store' = store
            /\ ret'[p] = ret[p]]_vars

C11_Witness ==
  \E p \in Procs :
    /\ op[p] = "createMany" /\ Len(records[p]) = 21
    /\ rpc[p] = "failed" /\ gi[p] = 2
    /\ ret[p] = Threw("HTTP 404: ")
    /\ Len(out[p]) = 10
    /\ [k \in 1..Len(store) |-> store[k].key] = [k \in 1..10 |-> k]

Upsert(p) == op[p] = "upsertByKey"
FindOne(p) == op[p] = "findOneByField"

\* The methods of the network calls task p has issued, in order.
Methods(p) == [k \in 1..Calls(p) |-> netlog[p][k].method]

\* C13: upsertByKey whose fields[keyField] is falsy (missing, null, empty
\* string, 0) fails with an error naming the key field before any network
\* call: no lookup, PATCH or POST is issued and the store is unchanged.
C13_FalsyKeyFailsBeforeAnyCall ==
  /\ [](\A p \in Procs :
          Upsert(p) /\ rpc[p] # "idle"
            /\ args[p].value \in {Undefined, Null, Str(""), Num(0)} =>
              /\ rpc[p] = "failed"
              /\ ret[p] = Threw("Upsert missing " \o args[p].field)
              /\ Calls(p) = 0)
  /\ [][\A p \in Procs :
          Upsert(p) /\ args[p].value \in {Undefined, Null, Str(""), Num(0)} =>
            /\ store' = store
            /\ netlog'[p] = netlog[p]]_vars

C13_Witness ==
  \E p \in Procs :
    /\ Upsert(p) /\ args[p].value = Num(0) /\ args[p].field = "reviewId"
    /\ rpc[p] = "failed"
    /\ ret[p] = Threw("Upsert missing reviewId")
    /\ Len(store) = 2 /\ Calls(p) = 0

\* The requests an operation has made through requestJSON, by method.
Requests(p) == [k \in 1..Len(events[p]) |-> events[p][k].e]

\* The records of the table before the operation that carry its key.
Held(p) == Matching(store0, <<args[p].value.s>>)

\* The identifiers and keys of a table, in order.
Rows(st) == [k \in 1..Len(st) |-> <<st[k].id, st[k].key>>]

\* C12: upsertByKey run alone: when a record with the key exists it issues
\* one lookup GET followed by exactly one PATCH addressed to that record and
\* returns that record's identifier, creating no record; when none exists it
\* issues one lookup GET followed by exactly one POST and returns the
\* identifier of the newly created record. It never issues both a PATCH and
\* a POST.
C12_UpsertPatchesOrPosts ==
  \A p \in Procs :
    Upsert(p) =>
      /\ ~(\E j, k \in 1..Calls(p) :
             netlog[p][j].method = "PATCH" /\ netlog[p][k].method = "POST")
      /\ rpc[p] = "returned" /\ Len(Held(p)) > 0 =>
           /\ Requests(p) = <<"GET", "PATCH">>
           /\ \A k \in 1..Calls(p) :
                netlog[p][k].method = "PATCH" =>
                  netlog[p][k].path = Held(p)[1].id
           /\ ret[p] = Returned(Held(p)[1].id)
           /\ Rows(store) = Rows(store0)
           /\ \A k \in 1..Len(store) :
                store[k].rev = IF store[k].id = Held(p)[1].id THEN 1 ELSE 0
      /\ rpc[p] = "returned" /\ Len(Held(p)) = 0 =>
           /\ Requests(p) = <<"GET", "POST">>
           /\ Len(store) = Len(store0) + 1
           /\ SubSeq(store, 1, Len(store0)) = store0
           /\ store[Len(store)].key = args[p].value
           /\ ret[p] = Returned(store[Len(store)].id)
           /\ \A k \in 1..Len(store0) : store0[k].id # ret[p].id
      /\ rpc[p] = "returned" /\ retryableSeen[p] = 0 =>
           Methods(p) \in {<<"GET", "PATCH">>, <<"GET", "POST">>}

C12_Witness ==
  \E p \in Procs :
    /\ Upsert(p) /\ rpc[p] = "returned" /\ args[p].value = Str("ChIJ1")
    /\ Rows(store0) = <<<<101, Str("ChIJ2")>>, <<102, Str("ChIJ1")>>>>
    /\ Methods(p) = <<"GET", "PATCH">>
    /\ netlog[p][2].path = 102
    /\ ret[p] = Returned(102)

C12_WitnessCreate ==
  \E p \in Procs :
    /\ Upsert(p) /\ rpc[p] = "returned" /\ args[p].value = Str("ChIJ1")
    /\ Rows(store0) = <<<<101, Str("ChIJ2")>>>>
    /\ Methods(p) = <<"GET", "POST">>
    /\ Rows(store) = <<<<101, Str("ChIJ2")>>, <<102, Str("ChIJ1")>>>>
    /\ ret[p] = Returned(102)

\* The records the lookup of the operation returned (none when it failed).
Looked(p) == outcome[p].kind = "resolved"
Found(p) == RecordsOrEmpty(outcome[p].json)

\* The duplicate error for n records found.
DuplicateError(p, n) ==
  Threw("Duplicate " \o args[p].table \o " where " \o args[p].field \o "=\""
          \o args[p].value.s \o "\" (" \o ToString(n) \o " found)")

\* C14: findOneByField fails with a duplicate error (naming table, field,
\* value and count) exactly when the lookup returns more than one record and
\* strict-duplicates mode is on; otherwise it returns the first returned
\* record, or null when none matched. Consequently upsertByKey under strict
\* mode with two or more stored records for the key rejects with that error
\* and issues no PATCH or POST, while with strict mode off it PATCHes only
\* the first match.
C14_DuplicatesUnderStrictMode ==
  \A p \in Procs :
    /\ FindOne(p) /\ rpc[p] \in {"returned", "failed"} =>
         /\ (\E n \in 0..pageSize : ret[p] = DuplicateError(p, n)) <=>
              (Looked(p) /\ Len(Found(p)) > 1 /\ strictDuplicates)
         /\ Looked(p) /\ Len(Found(p)) > 1 /\ strictDuplicates =>
              rpc[p] = "failed" /\ ret[p] = DuplicateError(p, Len(Found(p)))
         /\ Looked(p) /\ ~(Len(Found(p)) > 1 /\ strictDuplicates) =>
              /\ rpc[p] = "returned"
              /\ existing[p] = IF Len(Found(p)) = 0 THEN NoRecord ELSE Found(p)[1]
              /\ ret[p] = Returned(existing[p].id)
         /\ ~Looked(p) => ret[p] = Threw(outcome[p].error)
    /\ Upsert(p) /\ Len(Held(p)) >= 2 /\ strictDuplicates =>
         /\ \A k \in 1..Calls(p) : netlog[p][k].method = "GET"
         /\ store = store0
         /\ rpc[p] # "returned"
         /\ rpc[p] = "failed" /\ Looked(p) =>
              ret[p] = DuplicateError(p, Len(Held(p)))
    /\ Upsert(p) /\ Len(Held(p)) >= 2 /\ ~strictDuplicates =>
         /\ \A k \in 1..Calls(p) :
              /\ netlog[p][k].method # "POST"
              /\ netlog[p][k].method = "PATCH" =>
                   netlog[p][k].path = Held(p)[1].id
         /\ \A k \in 1..Len(store) :
              store[k].id # Held(p)[1].id => store[k] = store0[k]
         /\ rpc[p] = "returned" => ret[p] = Returned(Held(p)[1].id)

C14_Witness ==
  \E p \in Procs :
    /\ FindOne(p) /\ strictDuplicates /\ rpc[p] = "failed"
    /\ Rows(store0) = <<<<101, Str("ChIJ1")>>, <<102, Str("ChIJ1")>>>>
    /\ ret[p] = Threw("Duplicate Leads where placeId=\"ChIJ1\" (2 found)")

C14_WitnessUpsert ==
  \E p \in Procs :
    /\ Upsert(p) /\ ~strictDuplicates /\ rpc[p] = "returned"
    /\ Rows(store0) = <<<<101, Str("ChIJ1")>>, <<102, Str("ChIJ1")>>>>
    /\ store[1].rev = 1 /\ store[2].rev = 0
    /\ ret[p] = Returned(101)

FindKeys(p) == op[p] = "findRecordsByKeys"

\* The requested keys that are not missing, null, "" or 0, in order.
TruthyKeys(p) ==
  SelectSeq(args[p].keys, LAMBDA v : v \notin {Undefined, Null, Str(""), Num(0)})

\* The quoted values each network call of task p queried.
Filters(p) == [k \in 1..Calls(p) |-> netlog[p][k].filter]

\* C15 as stated: findRecordsByKeys called with a list of keys issues exactly
\* ceil(keys.length / 20) query GETs, each over a group of at most 20 keys.
C15_Original ==
  \A p \in Procs :
    FindKeys(p) /\ rpc[p] = "returned" =>
      /\ Len(Requests(p)) = Ceil(Len(args[p].keys), 20)
      /\ \A k \in 1..Calls(p) : Len(netlog[p][k].filter) <= 20

\* C15 (amended): findRecordsByKeys drops the falsy keys first: a call that
\* returns has issued exactly ceil(t / 20) query GETs, t being the number of
\* truthy keys of the list, each over a group of at most 20 of them, in list
\* order and one after another (a query is issued only once the one before
\* it has resolved).
C15_OneQueryPerTwentyTruthyKeys ==
  /\ [](\A p \in Procs :
          FindKeys(p) =>
            /\ \A k \in 1..Calls(p) :
                 /\ netlog[p][k].method = "GET"
                 /\ Len(netlog[p][k].filter) \in 1..20
            /\ Len(Requests(p)) <= Ceil(Len(TruthyKeys(p)), 20)
            /\ InFlight(p) \in {0, 1}
            /\ rpc[p] = "await_keys" => Len(Requests(p)) = gi[p]
            /\ rpc[p] = "returned" =>
                 /\ Len(Requests(p)) = Ceil(Len(TruthyKeys(p)), 20)
                 /\ \A k \in 1..Len(Requests(p)) : Requests(p)[k] = "GET"
                 /\ retryableSeen[p] = 0 =>
                      /\ Calls(p) = Ceil(Len(TruthyKeys(p)), 20)
                      /\ Flatten(Filters(p)) =
                           [k \in 1..Len(TruthyKeys(p)) |-> TruthyKeys(p)[k].s])
  /\ [][\A p \in Procs :
          FindKeys(p) /\ Len(events'[p]) > Len(events[p]) =>
            \/ rpc[p] = "idle"
            \/ Settled(p) /\ outcome[p].kind = "resolved"]_vars

C15_Witness ==
  \E p \in Procs :
    /\ FindKeys(p) /\ rpc[p] = "returned"
    /\ Len(args[p].keys) = 41 /\ Len(TruthyKeys(p)) = 33
    /\ Requests(p) = <<"GET", "GET">>
    /\ Calls(p) = 2
    /\ Len(netlog[p][1].filter) = 20 /\ Len(netlog[p][2].filter) = 13

\* The places of the table before the operation whose record carries the
\* key that reads x.
HeldAt(x) ==
  {k \in 1..Len(store0) :
     store0[k].key \notin {Undefined, Null, Str(""), Num(0)} /\ store0[k].key.s = x}

\* The stringified truthy keys of the request.
Wanted(p) == {TruthyKeys(p)[k].s : k \in 1..Len(TruthyKeys(p))}

\* The stringified keys queried together in the g-th group of twenty.
WantedInGroup(p, g) ==
  {TruthyKeys(p)[k].s : k \in ((g - 1) * 20 + 1)..Min(g * 20, Len(TruthyKeys(p)))}

\* Every query of the operation selects no more records than one page holds.
FitsFirstPage(p) ==
  \A g \in 1..Ceil(Len(TruthyKeys(p)), 20) :
    Cardinality(UNION {HeldAt(x) : x \in WantedInGroup(p, g)}) <= 100

\* The mapping has one entry per requested truthy key that has a record in
\* the store, and it leads to the identifier of the last such record.
MapIsExact(p) ==
  /\ DOMAIN map[p] = {x \in Wanted(p) : HeldAt(x) # {}}
  /\ \A x \in DOMAIN map[p] : map[p][x] = store0[Last(HeldAt(x))].id

\* C16 as stated: the mapping returned by findRecordsByKeys contains exactly
\* one entry per unique truthy requested key that has a record in the store,
\* keyed by the stringified key and mapped to that record's identifier (the
\* last one seen when several records carry the key), and no other entry.
C16_Original ==
  \A p \in Procs : FindKeys(p) /\ rpc[p] = "returned" => MapIsExact(p)

\* C16 (amended): provided the records selected by each query fit in its
\* first page of 100, the mapping returned by findRecordsByKeys contains
\* exactly one entry per unique truthy requested key that has a record in
\* the store, keyed by the stringified key and mapped to that record's
\* identifier; it has no entry for a key that was not found or for a record
\* whose key field is absent, and when several returned records carry the
\* same key the identifier of the last one seen is kept.
C16_MapOfFoundKeys ==
  \A p \in Procs :
    FindKeys(p) /\ rpc[p] = "returned" /\ FitsFirstPage(p) =>
      /\ MapIsExact(p)
      /\ \A k \in 1..Len(store0) :
           store0[k].key = Undefined =>
             \A x \in DOMAIN map[p] : map[p][x] # store0[k].id
      /\ store = store0

C16_Witness ==
  \E p \in Procs :
    /\ FindKeys(p) /\ rpc[p] = "returned" /\ FitsFirstPage(p)
    /\ args[p].keys = KeysWithRepeats(22)
    /\ Len(responses[p]) = 2
    /\ map[p]["k1"] = store0[Len(store0)].id
    /\ map[p]["7"] = store0[6].id
    /\ "k3" \notin DOMAIN map[p]
    /\ store0[2].key = Undefined

\* The places of a table whose record carries the key of task p's call.
WithKeyOf(p, st) == {k \in 1..Len(st) : st[k].key = args[p].value}

\* The lookup of task p's upsertByKey returned no record and its write has
\* been issued.
FoundNothing(p) ==
  Upsert(p) /\ Len(Requests(p)) = 2 /\ existing[p] = NoRecord

\* C21: upsertByKey is not atomic: its lookup and its write are separate
\* requests with no lock. While one call is between its lookup and its write
\* the other call is free to take its steps; each call chooses its write from
\* what its own lookup returned, whatever the table holds by then; and when
\* both lookups found nothing both calls POST, so that once both have
\* returned the store holds two records with the same key.
C21_ConcurrentUpsertsAreNotAtomic ==
  /\ \A p \in Procs : \A o \in Procs \ {p} :
       Upsert(p) /\ Upsert(o) /\ rpc[p] \in {"await_lookup", "await_write"} =>
         /\ rpc[o] = "idle" => ENABLED CallUpsert(o)
         /\ rq[o] = "await_fetch" => ENABLED FetchResponds(o)
         /\ rpc[o] = "await_lookup" /\ Settled(o) => ENABLED LookupAnswered(o)
  /\ \A p \in Procs :
       Upsert(p) /\ Len(Requests(p)) = 2 =>
         Requests(p)[2] = IF existing[p] = NoRecord THEN "POST" ELSE "PATCH"
  /\ \A p \in Procs : \A o \in Procs \ {p} :
       FoundNothing(p) /\ FoundNothing(o) /\ args[p] = args[o]
         /\ rpc[p] = "returned" /\ rpc[o] = "returned" =>
           /\ WithKeyOf(p, store0) = {}
           /\ Cardinality(WithKeyOf(p, store)) = 2
           /\ ret[p].id # ret[o].id
           /\ \A t \in {p, o} :
                \E k \in WithKeyOf(p, store) : store[k].id = ret[t].id

C21_Witness ==
  /\ Upsert(1) /\ Upsert(2) /\ args[1].value = args[2].value
  /\ Rows(store0) = <<<<101, Str("ChIJ2")>>>>
  /\ rpc[1] = "returned" /\ rpc[2] = "returned"
  /\ Methods(1) = <<"GET", "POST">> /\ Methods(2) = <<"GET", "POST">>
  /\ Rows(store) = <<<<101, Str("ChIJ2")>>, <<102, Str("ChIJ1")>>,
                     <<103, Str("ChIJ1")>>>>
  /\ {ret[1].id, ret[2].id} = {102, 103}

\* The tasks that have been started (their fn has been called).
StartedTasks == {t \in 1..Len(tstate) : tstate[t].order > 0}

\* C22: for a Pool with limit >= 1, tasks start in the order they were
\* submitted to run() (FIFO); a task waits in the queue only while limit
\* tasks are in flight; every submitted task eventually starts provided every
\* started task finishes; a task that fails rejects only its own run()
\* promise and still releases its slot, so that queued tasks behind it are
\* started; and each run() promise settles exactly once, with its own task's
\* result or error.
C22_PoolIsFifoAndLive ==
  /\ [](limit >= 1 =>
          /\ \A t \in StartedTasks : tstate[t].order = t
          /\ StartedTasks = 1..Cardinality(StartedTasks)
          /\ q = [k \in 1..Len(q) |-> Cardinality(StartedTasks) + k]
          /\ Len(q) > 0 => Cardinality(InFlightTasks) = limit
          /\ \A t \in 1..Len(tstate) :
               /\ tstate[t].settles <= 1
               /\ tstate[t].phase \in {"queued", "running"} =>
                    tstate[t].promise = "pending" /\ tstate[t].settles = 0
               /\ tstate[t].phase \in {"resolved", "rejected"} =>
                    tstate[t].promise = tstate[t].phase /\ tstate[t].settles = 1)
  /\ [][limit >= 1 =>
          \A t \in 1..Len(tstate) :
            /\ tstate[t].promise # "pending" =>
                 tstate'[t].promise = tstate[t].promise
            /\ tstate'[t].promise # tstate[t].promise =>
                 \/ tstate[t].phase = "running"
                 \/ tstate[t].phase = "queued" /\ tstate[t].throws
            /\ tstate[t].phase = "running" /\ tstate'[t].phase = "rejected" =>
                 /\ \A u \in 1..Len(tstate) :
                      u # t /\ ~tstate[u].throws =>
                        tstate'[u].promise = tstate[u].promise
                 /\ Len(q) > 0 => Head(q) \in StartedTasks']_vars
  /\ \A t \in 1..MaxTasks :
       [](limit >= 1 /\ Len(tstate) >= t => <>(t \in StartedTasks))

C22_Witness ==
  /\ limit = 1 /\ Len(tstate) = 4
  /\ tstate[1].phase = "rejected" /\ ~tstate[1].throws
  /\ tstate[2].phase = "rejected" /\ tstate[2].throws
  /\ tstate[3].phase = "running" /\ tstate[3].order = 3
  /\ q = <<4>>

====
